---- MODULE Spec2Model ----
(***************************************************************************)
(* A model of shouni/go-remote-io: the gs:// classification and parsing    *)
(* rules, the LocalGCSInputReader / GCS writers, the ClientFactory that    *)
(* owns the shared storage client, and the CLI entry point that closes it. *)
(*                                                                         *)
(* Strings are sequences of one-character strings, so that prefix tests,   *)
(* slicing and splitting are computed as the Go code computes them.        *)
(* An error value is a record [kind, site, cause]: `site` is the           *)
(* fmt.Errorf call that built it, `kind` the name the specification's      *)
(* error taxonomy gives to that message, `cause` the wrapped error ("nil"  *)
(* when nothing is wrapped).                                               *)
(***************************************************************************)
EXTENDS Integers, Sequences, FiniteSets, TLC

VARIABLES
    \* --- classification and parsing of one location
    location,     \* the location string under test
    given,        \* <<[bucketName, objectPath]>> when location was formatted from them, else <<>>
    route,        \* the dispatch LocalGCSInputReader.Open took: "unset", "gcs" or "local"
    outRoute,     \* the dispatch the copy command took for the output path
    parsed,       \* <<result of ParseGCSURI(location)>>, <<>> before the call
    \* --- the ClientFactory, its storage client and the components it issues
    revision,     \* which ClientFactory revision of src/ is linked in
    factory,      \* <<>>: no *ClientFactory; <<[gcsClient |-> c]>>: the factory and its field
    initErr,      \* <<>> before NewClientFactory ran, then <<its error result>>
    clients,      \* one record per storage.Client ever constructed, indexed by its identity
    components,   \* the readers and writers issued so far
    pc,           \* per goroutine: the statement it is at ("idle" between calls)
    loc,          \* per goroutine: the locals of the call in progress
    calls,        \* the calls that have returned, in order of return
    closeStarted, \* number of Close() calls entered
    closeReturned,\* number of Close() calls returned
    crashed,      \* a goroutine panicked (nil pointer dereference)
    \* --- one run of the command line program
    command,      \* which revision of the copy command is registered
    args,         \* the command line: [form, input, output]
    cliPc,        \* where Execute is: "off" when no program runs
    cliFactory,   \* the factory stored in the command's context, as `factory`
    factoryInstance, \* Execute's local variable: NIL or the factory
    cliClients,   \* the storage clients of the run, as `clients`
    rc,           \* the input stream: "none", "open" or "closed"
    cmdErr,       \* <<>> while the command runs, then <<what rootCmd.Execute returned>>
    events,       \* the opens, writes, releases and exits of the run, in order
    exitCode,     \* <<>> while the process lives, then <<its exit status>>
    \* --- reads and writes against one object store and one file system
    ioReader,     \* the LocalGCSInputReader in use
    ioWriter,     \* the writer in use
    ioFacet,      \* the interface the caller holds it by; "LocalOutputWriter.remote": held by
                  \* LocalOutputWriter and handed locations that classify as remote
    objects,      \* the visible objects of the store: <<bucket, key>> -> <<>> or <<content>>
    files,        \* the files of the file system: path -> content
    dirs,         \* the directories that exist
    written,      \* destination -> the bytes of the latest write call to it, when it succeeded
    ioLast,       \* the record of the latest Open, WriteToGCS or WriteToLocal
    ioCrashed     \* a call panicked on a nil client

uriVars == <<location, given, route, outRoute, parsed>>

lifeVars == <<revision, factory, initErr, clients, components, pc, loc, calls,
              closeStarted, closeReturned, crashed>>

cliVars == <<command, args, cliPc, cliFactory, factoryInstance, cliClients, rc,
             cmdErr, events, exitCode>>

ioVars == <<ioReader, ioWriter, ioFacet, objects, files, dirs, written, ioLast, ioCrashed>>

\* ------------------------------------------------------------------ bounds

\* Longest tail (the part after the scheme-like head) of an enumerated location.
MaxTail == 4
\* Longest bucket name used when a location is formatted from (bucket, object).
MaxBucket == 2
\* Number of calls (Close, getters, Open, WriteToGCS) made on one factory.
MaxCalls == 3
\* Longest byte sequence written or read.
MaxContent == 2

\* ----------------------------------------------------------------- strings

\* The literal "gs://" of strings.HasPrefix(filePath, "gs://").
GCSPrefix == <<"g", "s", ":", "/", "/">>

\* The separator "/" of strings.SplitN(path, "/", 2) and strings.Index(path, "/").
Slash == "/"

\* Every sequence over S of length at most n.
SeqsUpTo(S, n) == UNION {[1..m -> S] : m \in 0..n}

\* strings.HasPrefix(s, prefix): byte-wise, case-sensitive.
HasPrefix(s, prefix) ==
    /\ Len(s) >= Len(prefix)
    /\ SubSeq(s, 1, Len(prefix)) = prefix

\* s[n:] for 0 <= n <= len(s).
SliceFrom(s, n) == SubSeq(s, n + 1, Len(s))

\* s[:n] for 0 <= n <= len(s).
SliceTo(s, n) == SubSeq(s, 1, n)

\* strings.Index(s, sep) for a one-byte sep: the 0-based offset of the first
\* occurrence, -1 when there is none.
Index(s, sep) ==
    IF \E i \in 1..Len(s) : s[i] = sep
    THEN (CHOOSE i \in 1..Len(s) : s[i] = sep /\ \A j \in 1..(i - 1) : s[j] # sep) - 1
    ELSE -1

\* strings.SplitN(s, sep, 2): at most two parts, cut at the first sep.
SplitN2(s, sep) ==
    IF Index(s, sep) = -1
    THEN <<s>>
    ELSE <<SliceTo(s, Index(s, sep)), SliceFrom(s, Index(s, sep) + 1)>>

\* fmt.Sprintf("gs://%s/%s", bucketName, objectPath).
TargetURI(bucketName, objectPath) == GCSPrefix \o bucketName \o <<Slash>> \o objectPath

\* ------------------------------------------------------------------ errors

NoErr == [kind |-> "nil", site |-> "nil", cause |-> "nil"]

Err(kind, site, cause) == [kind |-> kind, site |-> site, cause |-> cause]

\* --------------------------------------------------- classification, parsing

\* ASCII lower-casing of one character of the scheme.
Lower(ch) == IF ch = "G" THEN "g" ELSE IF ch = "S" THEN "s" ELSE ch

\* The dispatch with the prefix compared case-insensitively.
OpenRoute_IgnoreCase(filePath) ==
    IF HasPrefix([i \in 1..Len(filePath) |-> Lower(filePath[i])], GCSPrefix)
    THEN "gcs" ELSE "local"

\* The dispatch of LocalGCSInputReader.Open: "gcs" when the path has the gs://
\* prefix, "local" otherwise.
OpenRoute(filePath) == IF HasPrefix(filePath, GCSPrefix) THEN "gcs" ELSE "local"

\* remoteio.IsGCSURI, the classifier runRcopy applies to the output path.
IsGCSURI(uri) == HasPrefix(uri, GCSPrefix)

\* ParseGCSURI cut at the last "/" instead of the first.
ParseGCSURI_LastSlash(uri) ==
    IF ~HasPrefix(uri, GCSPrefix)
    THEN [bucketName |-> <<>>, objectPath |-> <<>>,
          err |-> Err("InvalidReference", "ParseGCSURI.prefix", "nil")]
    ELSE LET path == SliceFrom(uri, 5)
             last == IF Index(path, Slash) = -1 THEN -1
                     ELSE (CHOOSE i \in 1..Len(path) :
                              path[i] = Slash /\ \A j \in (i + 1)..Len(path) : path[j] # Slash) - 1
         IN  IF last = -1
             THEN [bucketName |-> path, objectPath |-> <<>>, err |-> NoErr]
             ELSE IF SliceTo(path, last) = <<>>
                  THEN [bucketName |-> <<>>, objectPath |-> <<>>,
                        err |-> Err("InvalidReference", "ParseGCSURI.bucket", "nil")]
                  ELSE [bucketName |-> SliceTo(path, last),
                        objectPath |-> SliceFrom(path, last + 1), err |-> NoErr]

\* ParseGCSURI that demands a separator after the bucket name.
ParseGCSURI_RequireKey(uri) ==
    IF ~HasPrefix(uri, GCSPrefix) \/ Index(SliceFrom(uri, 5), Slash) = -1
    THEN [bucketName |-> <<>>, objectPath |-> <<>>,
          err |-> Err("InvalidReference", "ParseGCSURI.prefix", "nil")]
    ELSE ParseGCSURI_LastSlash(uri)

\* GCSFileWriter.ParseGCSURI: (bucketName, objectPath, err).
ParseGCSURI(uri) ==
    IF ~HasPrefix(uri, GCSPrefix)
    THEN [bucketName |-> <<>>, objectPath |-> <<>>,
          err |-> Err("InvalidReference", "ParseGCSURI.prefix", "nil")]
    ELSE LET path == SliceFrom(uri, 5)
             idx  == Index(path, Slash)
         IN  IF idx = -1
             THEN [bucketName |-> path, objectPath |-> <<>>, err |-> NoErr]
             ELSE IF SliceTo(path, idx) = <<>>
                  THEN [bucketName |-> <<>>, objectPath |-> <<>>,
                        err |-> Err("InvalidReference", "ParseGCSURI.bucket", "nil")]
                  ELSE [bucketName |-> SliceTo(path, idx),
                        objectPath |-> SliceFrom(path, idx + 1), err |-> NoErr]

\* The output dispatch of runRemoteRead: strings.HasPrefix(outputPath, "gs://").
RemoteReadOutputRoute(outputPath) ==
    IF HasPrefix(outputPath, GCSPrefix) THEN "gcs" ELSE "local"

\* The output dispatch of runRcopy: remoteio.IsGCSURI(outputPath).
RcopyOutputRoute(outputPath) == IF IsGCSURI(outputPath) THEN "gcs" ELSE "local"

\* The revisions of the copy command under src/.
CommandRevisions == {"runRemoteRead", "runRcopy"}

\* ------------------------------------------------- storage client and factory

\* The nil pointer; client identities are 1, 2, ...
NIL == 0

\* The ClientFactory revisions under src/: the one whose Close clears the field
\* and whose getters return an error on a nil field (part_004:13-64), and the
\* one whose Close only forwards and whose getters never fail (part_004:78-121).
FactoryRevisions == {"NilAfterClose", "ForwardOnly"}

\* Why storage.NewClient may fail.
InitCauses == {"NoCredentials"}

\* A freshly constructed storage.Client: how often its Close was invoked, how
\* often it was called into, and how many of those calls came after a Close.
NewStorageClient == [closeCalls |-> 0, uses |-> 0, usesAfterClose |-> 0]

\* NewClientFactory that hands out a factory with a nil client when
\* storage.NewClient fails.
NewClientFactory_FactoryOnError(outcome, cs) ==
    IF outcome = "ok"
    THEN [f |-> <<[gcsClient |-> Len(cs) + 1]>>, err |-> NoErr,
          clients |-> Append(cs, NewStorageClient)]
    ELSE [f |-> <<[gcsClient |-> NIL]>>,
          err |-> Err("InitializationFailed", "NewClientFactory", outcome),
          clients |-> cs]

\* NewClientFactory(ctx): storage.NewClient succeeds ("ok") or fails with a
\* cause; on failure (nil, wrapped error) is returned.
NewClientFactory(outcome, cs) ==
    IF outcome = "ok"
    THEN [f |-> <<[gcsClient |-> Len(cs) + 1]>>, err |-> NoErr,
          clients |-> Append(cs, NewStorageClient)]
    ELSE [f |-> <<>>,
          err |-> Err("InitializationFailed", "NewClientFactory", outcome),
          clients |-> cs]

\* Close that leaves the field as it was.
FieldAfterClose_Kept(rev, cur) == cur

\* The value of f.gcsClient when Close returns after releasing: nil in the
\* revision that clears it, unchanged in the one that only forwards.
FieldAfterClose(rev, cur) == IF rev = "NilAfterClose" THEN NIL ELSE cur

\* Whether GetRemoteInputReader / GetGCSOutputWriter return their error: the
\* nil check of one revision, nothing in the other.
GetterRefuses(rev, field) == rev = "NilAfterClose" /\ field = NIL

\* The error a refusing getter returns.
GetterError(kind) ==
    Err("FactoryClosed",
        IF kind = "reader" THEN "GetRemoteInputReader" ELSE "GetGCSOutputWriter", "nil")

\* A reader that holds a client of its own instead of the injected one.
NewLocalGCSInputReader_OwnClient(gcsClient) ==
    [kind |-> "reader", impl |-> "LocalGCSInputReader", client |-> gcsClient + 1]

\* remoteio.NewLocalGCSInputReader(gcsClient): the reader keeps the pointer.
NewLocalGCSInputReader(gcsClient) ==
    [kind |-> "reader", impl |-> "LocalGCSInputReader", client |-> gcsClient]

\* The writer implementations under src/ that satisfy GCSOutputWriter.
WriterImpls ==
    {"GCSFileWriter.string", "GCSFileWriter.stream", "GCSFileWriter.parse",
     "GCSFileWriter.log", "UniversalIOWriter"}

\* remoteio.NewGCSFileWriter(client) / NewUniversalIOWriter(client): the writer
\* keeps the pointer.
NewWriter(impl, client) == [kind |-> "writer", impl |-> impl, client |-> client]

\* ------------------------------------------------------ goroutines and calls

\* The goroutines that call into one factory: two, enough for every race
\* between a pair of calls.
Goroutines == {1, 2}

\* The locals of a goroutine that is not inside a call.
IdleLocals ==
    [op |-> "none", kind |-> "none", c |-> NIL, err |-> NoErr,
     closesStartedBefore |-> 0, closesReturnedBefore |-> 0, released |-> 0]

\* Calls entered so far, returned or not.
CallsEntered == Len(calls) + Cardinality({u \in Goroutines : pc[u] # "idle"})

\* A goroutine may enter a call once NewClientFactory has run, while the
\* process is alive.
CanStart(t) ==
    /\ pc[t] = "idle"
    /\ ~crashed
    /\ initErr # <<>>
    /\ CallsEntered < MaxCalls

\* The record of a call at its return.
CallRecord(op, kind, err, comp, startedBefore, returnedBefore, released, uses, usesAfterClose) ==
    [op |-> op, kind |-> kind, err |-> err, comp |-> comp,
     closesStartedBefore |-> startedBefore, closesReturnedBefore |-> returnedBefore,
     released |-> released, uses |-> uses, usesAfterClose |-> usesAfterClose]

\* Goroutine t enters an operation of the factory.
Enter(t, op, kind, at) ==
    /\ pc' = [pc EXCEPT ![t] = at]
    /\ loc' = [loc EXCEPT ![t] =
                 [op |-> op, kind |-> kind, c |-> NIL, err |-> NoErr,
                  closesStartedBefore |-> closeStarted,
                  closesReturnedBefore |-> closeReturned, released |-> 0]]

\* Goroutine t returns (err, comp) from the call it is in.
Return(t, err, comp) ==
    /\ calls' = Append(calls,
                   CallRecord(loc[t].op, loc[t].kind, err, comp,
                              loc[t].closesStartedBefore, loc[t].closesReturnedBefore,
                              loc[t].released, 0, 0))
    /\ pc' = [pc EXCEPT ![t] = "idle"]
    /\ loc' = [loc EXCEPT ![t] = IdleLocals]

\* A nil pointer dereference: the process dies.
Panic ==
    /\ crashed' = TRUE
    /\ UNCHANGED <<revision, factory, initErr, clients, components, pc, loc, calls,
                   closeStarted, closeReturned>>

\* NewClientFactory(ctx) runs once.
Construct ==
    /\ UNCHANGED <<uriVars, cliVars, ioVars>>
    /\ initErr = <<>>
    /\ \E outcome \in {"ok"} \cup InitCauses :
          LET r == NewClientFactory(outcome, clients)
          IN  /\ factory' = r.f
              /\ initErr' = <<r.err>>
              /\ clients' = r.clients
    /\ UNCHANGED <<revision, components, pc, loc, calls, closeStarted, closeReturned, crashed>>

\* ---- ClientFactory.Close

\* The results storage.Client.Close may give.
ReleaseOutcomes == {"ok", "CloseError"}

ReleaseError(outcome) ==
    IF outcome = "ok" THEN NoErr ELSE Err("ReleaseFailed", "storage.Client.Close", outcome)

\* f.Close() is entered.
CloseCall(t) ==
    /\ UNCHANGED <<uriVars, cliVars, ioVars>>
    /\ CanStart(t)
    /\ Enter(t, "Close", "factory", "Close.check")
    /\ closeStarted' = closeStarted + 1
    /\ UNCHANGED <<revision, factory, initErr, clients, components, calls, closeReturned, crashed>>

\* if f.gcsClient != nil { ... } return nil; the revision that only forwards
\* has no such check and goes on to the release.
CloseCheck(t) ==
    /\ UNCHANGED <<uriVars, cliVars, ioVars>>
    /\ pc[t] = "Close.check"
    /\ ~crashed
    /\ IF factory = <<>>
       THEN Panic
       ELSE IF revision = "ForwardOnly" \/ factory[1].gcsClient # NIL
            THEN /\ pc' = [pc EXCEPT ![t] = "Close.release"]
                 /\ loc' = [loc EXCEPT ![t].c = factory[1].gcsClient]
                 /\ UNCHANGED <<revision, factory, initErr, clients, components, calls,
                                closeStarted, closeReturned, crashed>>
            ELSE /\ Return(t, NoErr, 0)
                 /\ closeReturned' = closeReturned + 1
                 /\ UNCHANGED <<revision, factory, initErr, clients, components,
                                closeStarted, crashed>>

\* err := f.gcsClient.Close(): the pointer is the one the check loaded or a
\* fresh load of the field, as the compiler chose.
CloseRelease(t) ==
    /\ UNCHANGED <<uriVars, cliVars, ioVars>>
    /\ pc[t] = "Close.release"
    /\ ~crashed
    /\ \E p \in {loc[t].c, factory[1].gcsClient} :
          IF p = NIL
          THEN Panic
          ELSE \E outcome \in ReleaseOutcomes :
                 /\ clients' = [clients EXCEPT ![p].closeCalls = @ + 1]
                 /\ pc' = [pc EXCEPT ![t] = "Close.return"]
                 /\ loc' = [loc EXCEPT ![t].err = ReleaseError(outcome),
                                       ![t].released = @ + 1]
                 /\ UNCHANGED <<revision, factory, initErr, components, calls,
                                closeStarted, closeReturned, crashed>>

\* Close that leaves the field in place when the release failed.
CloseReturn_KeepOnError(t) ==
    /\ UNCHANGED <<uriVars, cliVars, ioVars>>
    /\ pc[t] = "Close.return"
    /\ ~crashed
    /\ factory' = IF loc[t].err = NoErr
                  THEN <<[gcsClient |-> FieldAfterClose(revision, factory[1].gcsClient)]>>
                  ELSE factory
    /\ Return(t, loc[t].err, 0)
    /\ closeReturned' = closeReturned + 1
    /\ UNCHANGED <<revision, initErr, clients, components, closeStarted, crashed>>

\* f.gcsClient = nil (in the revision that has this line); return err
CloseReturn(t) ==
    /\ UNCHANGED <<uriVars, cliVars, ioVars>>
    /\ pc[t] = "Close.return"
    /\ ~crashed
    /\ factory' = <<[gcsClient |-> FieldAfterClose(revision, factory[1].gcsClient)]>>
    /\ Return(t, loc[t].err, 0)
    /\ closeReturned' = closeReturned + 1
    /\ UNCHANGED <<revision, initErr, clients, components, closeStarted, crashed>>

\* ---- ClientFactory.GetRemoteInputReader / GetGCSOutputWriter

\* A getter is entered.
GetCall(t) ==
    /\ UNCHANGED <<uriVars, cliVars, ioVars>>
    /\ CanStart(t)
    /\ \E kind \in {"reader", "writer"} :
          Enter(t, IF kind = "reader" THEN "GetRemoteInputReader" ELSE "GetGCSOutputWriter",
                kind, "Get.check")
    /\ UNCHANGED <<revision, factory, initErr, clients, components, calls,
                   closeStarted, closeReturned, crashed>>

\* if f.gcsClient == nil { return nil, error }
GetCheck(t) ==
    /\ UNCHANGED <<uriVars, cliVars, ioVars>>
    /\ pc[t] = "Get.check"
    /\ ~crashed
    /\ IF factory = <<>>
       THEN Panic
       ELSE IF GetterRefuses(revision, factory[1].gcsClient)
            THEN /\ Return(t, GetterError(loc[t].kind), 0)
                 /\ UNCHANGED <<revision, factory, initErr, clients, components,
                                closeStarted, closeReturned, crashed>>
            ELSE /\ pc' = [pc EXCEPT ![t] = "Get.build"]
                 /\ loc' = [loc EXCEPT ![t].c = factory[1].gcsClient]
                 /\ UNCHANGED <<revision, factory, initErr, clients, components, calls,
                                closeStarted, closeReturned, crashed>>

\* A Close was in flight at some moment of goroutine t's call.
OverlapsClose(t) ==
    \/ loc[t].closesStartedBefore # loc[t].closesReturnedBefore
    \/ closeStarted # loc[t].closesStartedBefore

\* return remoteio.NewLocalGCSInputReader(f.gcsClient), nil (or the writer's
\* constructor): the argument is the pointer the check loaded or a fresh load.
GetBuild(t) ==
    /\ UNCHANGED <<uriVars, cliVars, ioVars>>
    /\ pc[t] = "Get.build"
    /\ ~crashed
    /\ \E p \in {loc[t].c, factory[1].gcsClient} :
        \E obj \in IF loc[t].kind = "reader"
                    THEN {NewLocalGCSInputReader(p)}
                    ELSE {NewWriter(impl, p) : impl \in WriterImpls} :
          /\ components' = Append(components,
                                [obj |-> obj, raced |-> OverlapsClose(t),
                                 closesStartedAtIssue |-> closeStarted])
          /\ Return(t, NoErr, Len(components) + 1)
    /\ UNCHANGED <<revision, factory, initErr, clients, closeStarted, closeReturned, crashed>>

\* ---- LocalGCSInputReader.Open

\* What os.Open may give.
LocalOutcomes == {"ok", "NotFound"}

\* What a call into the storage client may give: a result of the backend while
\* the client is live; an error or a nil dereference inside the library once
\* its Close has run.
ClientOutcomes(closed) == IF closed THEN {"ClientClosed", "panic"} ELSE {"ok", "NotFound"}

\* The result of Open: the error, whether a stream was returned, how many
\* calls went into the storage client, whether the call panicked.
OpenResult(err, stream, uses, panic) ==
    [err |-> err, stream |-> stream, uses |-> uses, panic |-> panic]

\* openGCSObject that takes a URI without a separator as a bucket to read.
openGCSObject_NoSlashCheck(r, gcsURI, outcome) ==
    IF r.client = NIL
    THEN OpenResult(Err("BackendUnavailable", "openGCSObject.client", "nil"), FALSE, 0, FALSE)
    ELSE LET parts == SplitN2(SliceFrom(gcsURI, 5), Slash)
         IN  IF parts[1] = <<>>
             THEN OpenResult(Err("InvalidReference", "openGCSObject.bucket", "nil"), FALSE, 0, FALSE)
             ELSE IF Len(parts) = 2 /\ parts[2] = <<>>
             THEN OpenResult(Err("InvalidReference", "openGCSObject.object", "nil"), FALSE, 0, FALSE)
             ELSE IF outcome = "panic"
             THEN OpenResult(NoErr, FALSE, 1, TRUE)
             ELSE IF outcome = "ok"
             THEN OpenResult(NoErr, TRUE, 1, FALSE)
             ELSE OpenResult(Err(outcome, "openGCSObject.NewReader", outcome), FALSE, 1, FALSE)

\* openGCSObject that asks the backend for an object with an empty name.
openGCSObject_NoKeyCheck(r, gcsURI, outcome) ==
    IF r.client = NIL
    THEN OpenResult(Err("BackendUnavailable", "openGCSObject.client", "nil"), FALSE, 0, FALSE)
    ELSE LET parts == SplitN2(SliceFrom(gcsURI, 5), Slash)
         IN  IF Len(parts) # 2
             THEN OpenResult(Err("InvalidReference", "openGCSObject.slash", "nil"), FALSE, 0, FALSE)
             ELSE IF parts[1] = <<>>
             THEN OpenResult(Err("InvalidReference", "openGCSObject.bucket", "nil"), FALSE, 0, FALSE)
             ELSE IF outcome = "ok"
             THEN OpenResult(NoErr, TRUE, 1, FALSE)
             ELSE OpenResult(Err(outcome, "openGCSObject.NewReader", outcome), FALSE, 1, FALSE)

\* openGCSObject that uses its client without looking at it.
openGCSObject_NoClientCheck(r, gcsURI, outcome) ==
    LET parts == SplitN2(SliceFrom(gcsURI, 5), Slash)
    IN  IF Len(parts) # 2
        THEN OpenResult(Err("InvalidReference", "openGCSObject.slash", "nil"), FALSE, 0, FALSE)
        ELSE IF parts[1] = <<>>
        THEN OpenResult(Err("InvalidReference", "openGCSObject.bucket", "nil"), FALSE, 0, FALSE)
        ELSE IF parts[2] = <<>>
        THEN OpenResult(Err("InvalidReference", "openGCSObject.object", "nil"), FALSE, 0, FALSE)
        ELSE IF r.client = NIL \/ outcome = "panic"
        THEN OpenResult(NoErr, FALSE, 1, TRUE)
        ELSE IF outcome = "ok"
        THEN OpenResult(NoErr, TRUE, 1, FALSE)
        ELSE OpenResult(Err(outcome, "openGCSObject.NewReader", outcome), FALSE, 1, FALSE)

\* LocalGCSInputReader.openGCSObject(ctx, gcsURI) with the backend's answer.
openGCSObject(r, gcsURI, outcome) ==
    IF r.client = NIL
    THEN OpenResult(Err("BackendUnavailable", "openGCSObject.client", "nil"), FALSE, 0, FALSE)
    ELSE LET parts == SplitN2(SliceFrom(gcsURI, 5), Slash)
         IN  IF Len(parts) # 2
             THEN OpenResult(Err("InvalidReference", "openGCSObject.slash", "nil"), FALSE, 0, FALSE)
             ELSE IF parts[1] = <<>>
             THEN OpenResult(Err("InvalidReference", "openGCSObject.bucket", "nil"), FALSE, 0, FALSE)
             ELSE IF parts[2] = <<>>
             THEN OpenResult(Err("InvalidReference", "openGCSObject.object", "nil"), FALSE, 0, FALSE)
             ELSE IF outcome = "panic"
             THEN OpenResult(NoErr, FALSE, 1, TRUE)
             ELSE IF outcome = "ok"
             THEN OpenResult(NoErr, TRUE, 1, FALSE)
             ELSE OpenResult(Err(outcome, "openGCSObject.NewReader", outcome), FALSE, 1, FALSE)

\* LocalGCSInputReader.Open(ctx, filePath) with the answer of the backend or
\* of the file system.
Open(r, filePath, outcome) ==
    IF OpenRoute(filePath) = "gcs"
    THEN openGCSObject(r, filePath, outcome)
    ELSE IF outcome = "ok"
         THEN OpenResult(NoErr, TRUE, 0, FALSE)
         ELSE OpenResult(Err(outcome, "Open.local", outcome), FALSE, 0, FALSE)

\* ---- WriteToGCS

\* const DefaultContentType
DefaultContentType == "text/plain; charset=utf-8"

\* The content type the oldest GCSFileWriter always sets.
MarkdownContentType == "text/markdown; charset=utf-8"

\* The implementations that reject an empty bucket name or object path.
ValidatesNames(impl) ==
    impl \in {"GCSFileWriter.parse", "GCSFileWriter.log", "UniversalIOWriter"}

\* The implementation that checks its client for nil.
ChecksClient(impl) == impl = "UniversalIOWriter"

\* wc.ContentType as each implementation sets it.
ContentTypeSet(impl, contentType) ==
    IF impl = "GCSFileWriter.string" THEN MarkdownContentType
    ELSE IF impl = "GCSFileWriter.stream" THEN contentType
    ELSE IF contentType = "" THEN DefaultContentType ELSE contentType

\* What io.Copy(wc, contentReader) / wc.Write may give.
CopyOutcomes == {"ok", "SourceError", "SinkError"}

\* What the final wc.Close() may give.
CommitOutcomes == {"ok", "UploadError"}

\* The size of the buffer io.Copy moves the source through, in bytes of the
\* model.
ChunkSize == 1

\* The most bytes of the content that a write of implementation impl holds in
\* memory at one moment: io.Copy holds one buffer; the writer that takes its
\* content as a string is handed all of it and converts it with
\* []byte(content) for a single wc.Write.
Held(impl, source) ==
    IF impl = "GCSFileWriter.string" THEN Len(source)
    ELSE IF Len(source) < ChunkSize THEN Len(source) ELSE ChunkSize

\* The result of WriteToGCS: the error, the calls into the storage client,
\* whether a write session (storage.Writer) was created, how often it was
\* closed, the content type set on it, whether the call panicked.
WriteResult(err, uses, session, sinkCloses, contentType, panic) ==
    [err |-> err, uses |-> uses, session |-> session, sinkCloses |-> sinkCloses,
     contentType |-> contentType, panic |-> panic]

\* WriteToGCS that closes the writer on a failed copy and goes on to the
\* final Close as well.
WriteToGCS_CloseTwice(w, bucketName, objectPath, contentType, copy, commit, client) ==
    IF ValidatesNames(w.impl) /\ bucketName = <<>>
    THEN WriteResult(Err("InvalidReference", "WriteToGCS.bucket", "nil"), 0, FALSE, 0, "", FALSE)
    ELSE IF ValidatesNames(w.impl) /\ objectPath = <<>>
    THEN WriteResult(Err("InvalidReference", "WriteToGCS.object", "nil"), 0, FALSE, 0, "", FALSE)
    ELSE IF ChecksClient(w.impl) /\ w.client = NIL
    THEN WriteResult(Err("BackendUnavailable", "WriteToGCS.client", "nil"), 0, FALSE, 0, "", FALSE)
    ELSE IF w.client = NIL
    THEN WriteResult(NoErr, 0, FALSE, 0, "", TRUE)
    ELSE IF client = "panic"
    THEN WriteResult(NoErr, 1, FALSE, 0, "", TRUE)
    ELSE LET ct == ContentTypeSet(w.impl, contentType)
             cp == IF client = "ClientClosed" THEN "SinkError" ELSE copy
         IN  IF cp # "ok"
             THEN WriteResult(Err("WriteFailed", "WriteToGCS.copy", cp), 1, TRUE, 2, ct, FALSE)
             ELSE IF commit # "ok"
             THEN WriteResult(Err("CommitFailed", "WriteToGCS.close", commit), 1, TRUE, 1, ct, FALSE)
             ELSE WriteResult(NoErr, 1, TRUE, 1, ct, FALSE)

\* WriteToGCS that returns on a failed copy without closing the writer.
WriteToGCS_LeakOnCopyError(w, bucketName, objectPath, contentType, copy, commit, client) ==
    IF ValidatesNames(w.impl) /\ bucketName = <<>>
    THEN WriteResult(Err("InvalidReference", "WriteToGCS.bucket", "nil"), 0, FALSE, 0, "", FALSE)
    ELSE IF ValidatesNames(w.impl) /\ objectPath = <<>>
    THEN WriteResult(Err("InvalidReference", "WriteToGCS.object", "nil"), 0, FALSE, 0, "", FALSE)
    ELSE IF ChecksClient(w.impl) /\ w.client = NIL
    THEN WriteResult(Err("BackendUnavailable", "WriteToGCS.client", "nil"), 0, FALSE, 0, "", FALSE)
    ELSE IF w.client = NIL
    THEN WriteResult(NoErr, 0, FALSE, 0, "", TRUE)
    ELSE IF client = "panic"
    THEN WriteResult(NoErr, 1, FALSE, 0, "", TRUE)
    ELSE LET ct == ContentTypeSet(w.impl, contentType)
             cp == IF client = "ClientClosed" THEN "SinkError" ELSE copy
         IN  IF cp # "ok"
             THEN WriteResult(Err("WriteFailed", "WriteToGCS.copy", cp), 1, TRUE, 0, ct, FALSE)
             ELSE IF commit # "ok"
             THEN WriteResult(Err("CommitFailed", "WriteToGCS.close", commit), 1, TRUE, 1, ct, FALSE)
             ELSE WriteResult(NoErr, 1, TRUE, 1, ct, FALSE)

\* WriteToGCS that reports a failed final Close like a failed copy.
WriteToGCS_OneErrorKind(w, bucketName, objectPath, contentType, copy, commit, client) ==
    IF ValidatesNames(w.impl) /\ bucketName = <<>>
    THEN WriteResult(Err("InvalidReference", "WriteToGCS.bucket", "nil"), 0, FALSE, 0, "", FALSE)
    ELSE IF ValidatesNames(w.impl) /\ objectPath = <<>>
    THEN WriteResult(Err("InvalidReference", "WriteToGCS.object", "nil"), 0, FALSE, 0, "", FALSE)
    ELSE IF ChecksClient(w.impl) /\ w.client = NIL
    THEN WriteResult(Err("BackendUnavailable", "WriteToGCS.client", "nil"), 0, FALSE, 0, "", FALSE)
    ELSE IF w.client = NIL
    THEN WriteResult(NoErr, 0, FALSE, 0, "", TRUE)
    ELSE IF client = "panic"
    THEN WriteResult(NoErr, 1, FALSE, 0, "", TRUE)
    ELSE LET ct == ContentTypeSet(w.impl, contentType)
             cp == IF client = "ClientClosed" THEN "SinkError" ELSE copy
         IN  IF cp # "ok"
             THEN WriteResult(Err("WriteFailed", "WriteToGCS.copy", cp), 1, TRUE, 1, ct, FALSE)
             ELSE IF commit # "ok"
             THEN WriteResult(Err("WriteFailed", "WriteToGCS.close", commit), 1, TRUE, 1, ct, FALSE)
             ELSE WriteResult(NoErr, 1, TRUE, 1, ct, FALSE)

\* WriteToGCS(ctx, bucketName, objectPath, contentReader, contentType) of
\* writer w, with the outcome of the copy and of the final Close; client is
\* "ok" for a live client, else what the released client does.
WriteToGCS(w, bucketName, objectPath, contentType, copy, commit, client) ==
    IF ValidatesNames(w.impl) /\ bucketName = <<>>
    THEN WriteResult(Err("InvalidReference", "WriteToGCS.bucket", "nil"), 0, FALSE, 0, "", FALSE)
    ELSE IF ValidatesNames(w.impl) /\ objectPath = <<>>
    THEN WriteResult(Err("InvalidReference", "WriteToGCS.object", "nil"), 0, FALSE, 0, "", FALSE)
    ELSE IF ChecksClient(w.impl) /\ w.client = NIL
    THEN WriteResult(Err("BackendUnavailable", "WriteToGCS.client", "nil"), 0, FALSE, 0, "", FALSE)
    ELSE IF w.client = NIL
    THEN WriteResult(NoErr, 0, FALSE, 0, "", TRUE)
    ELSE IF client = "panic"
    THEN WriteResult(NoErr, 1, FALSE, 0, "", TRUE)
    ELSE LET ct == ContentTypeSet(w.impl, contentType)
             cp == IF client = "ClientClosed" THEN "SinkError" ELSE copy
         IN  IF cp # "ok"
             THEN WriteResult(Err("WriteFailed", "WriteToGCS.copy", cp), 1, TRUE, 1, ct, FALSE)
             ELSE IF commit # "ok"
             THEN WriteResult(Err("CommitFailed", "WriteToGCS.close", commit), 1, TRUE, 1, ct, FALSE)
             ELSE WriteResult(NoErr, 1, TRUE, 1, ct, FALSE)

\* ---- calls on issued components

\* The locations opened through the readers of one factory: a well-formed
\* remote object and a local path.
LifePaths == {TargetURI(<<"b">>, <<"k">>), <<"b">>}

\* The storage client behind pointer c has had its Close invoked.
Released(c) == c \in DOMAIN clients /\ clients[c].closeCalls > 0

\* The storage client records cs after `uses` calls through pointer c.
ClientsAfterUse(cs, c, uses) ==
    IF c \in DOMAIN cs /\ uses > 0
    THEN [cs EXCEPT ![c].uses = @ + uses,
                    ![c].usesAfterClose = @ + (IF cs[c].closeCalls > 0 THEN uses ELSE 0)]
    ELSE cs

\* reader.Open(ctx, path) on an issued reader, as one step of goroutine t.
OpenCall(t) ==
    /\ UNCHANGED <<uriVars, cliVars, ioVars>>
    /\ CanStart(t)
    /\ \E i \in DOMAIN components, path \in LifePaths :
          /\ components[i].obj.kind = "reader"
          /\ LET r == components[i].obj
             IN \E outcome \in IF OpenRoute(path) = "gcs"
                                THEN ClientOutcomes(Released(r.client))
                                ELSE LocalOutcomes :
                  LET res == Open(r, path, outcome)
                  IN  /\ calls' = Append(calls,
                                     CallRecord("Open", OpenRoute(path), res.err, i,
                                                closeStarted, closeReturned, 0, res.uses,
                                                IF Released(r.client) THEN res.uses ELSE 0))
                      /\ clients' = ClientsAfterUse(clients, r.client, res.uses)
                      /\ crashed' = res.panic
    /\ UNCHANGED <<revision, factory, initErr, components, pc, loc, closeStarted, closeReturned>>

\* writer.WriteToGCS(ctx, bucket, object, source, "") on an issued writer, as
\* one step of goroutine t.
WriteCall(t) ==
    /\ UNCHANGED <<uriVars, cliVars, ioVars>>
    /\ CanStart(t)
    /\ \E i \in DOMAIN components :
          /\ components[i].obj.kind = "writer"
          /\ LET w == components[i].obj
             IN \E copy \in CopyOutcomes, commit \in CommitOutcomes,
                   client \in IF Released(w.client) THEN ClientOutcomes(TRUE) ELSE {"ok"} :
                  LET res == WriteToGCS(w, <<"b">>, <<"k">>, "", copy, commit, client)
                  IN  /\ calls' = Append(calls,
                                     CallRecord("WriteToGCS", "gcs", res.err, i,
                                                closeStarted, closeReturned, 0, res.uses,
                                                IF Released(w.client) THEN res.uses ELSE 0))
                      /\ clients' = ClientsAfterUse(clients, w.client, res.uses)
                      /\ crashed' = res.panic
    /\ UNCHANGED <<revision, factory, initErr, components, pc, loc, closeStarted, closeReturned>>

\* ------------------------------------------ the object store and file system

\* The byte sequences a caller writes.
Contents == SeqsUpTo({"x"}, MaxContent)

\* The buckets that exist in the store, and the object name used in them,
\* which contains the separator.
Buckets == {<<"b">>}

Keys == {<<"k", Slash, "k">>}

ObjectNames == Buckets \X Keys

\* The local paths written and opened: one in the working directory, one in
\* a directory that may not exist yet.
LocalPaths == {<<"f">>, <<"d", Slash, "f">>}

\* A local path as the file system resolves it (filepath.Clean): repeated
\* separators count as one and a trailing separator is dropped.
Clean(path) ==
    LET keep == { i \in 1..Len(path) :
                    path[i] = Slash =>
                       /\ i > 1 => path[i - 1] # Slash
                       /\ i = 1 \/ \E j \in (i + 1)..Len(path) : path[j] # Slash }
        nth(k) == CHOOSE i \in keep : Cardinality({ j \in keep : j < i }) = k - 1
    IN  [k \in 1..Cardinality(keep) |-> path[nth(k)]]

\* filepath.Dir(path): the cleaned path up to its last separator, "." when it
\* has none.
Dir(path) ==
    IF Index(path, Slash) = -1 THEN <<".">>
    ELSE Clean(SliceTo(path, CHOOSE i \in 1..Len(path) :
                                path[i] = Slash /\ \A j \in (i + 1)..Len(path) : path[j] # Slash))

\* The paths a caller hands to WriteToLocal: the local paths, and a location
\* that classifies as remote.
LocalWritePaths == LocalPaths \cup {GCSPrefix \o <<"f">>}

\* The files those writes may create.
FilePaths == {Clean(p) : p \in LocalWritePaths}

\* Every destination a write may name: the URI of an object or a local path.
Destinations == {TargetURI(o[1], o[2]) : o \in ObjectNames} \cup LocalPaths

\* The object a reader addresses when it cuts the URI at its last separator.
ObjectOf_LastSlash(gcsURI) ==
    LET path == SliceFrom(gcsURI, 5)
        last == (CHOOSE i \in 1..Len(path) :
                    path[i] = Slash /\ \A j \in (i + 1)..Len(path) : path[j] # Slash) - 1
    IN  <<SliceTo(path, last), SliceFrom(path, last + 1)>>

\* The (bucketName, objectName) openGCSObject passes to the client for a URI
\* that passed its checks.
ObjectOf(gcsURI) ==
    LET parts == SplitN2(SliceFrom(gcsURI, 5), Slash)
    IN  <<parts[1], parts[2]>>

\* The writers that implement WriteToLocal: the one that creates missing
\* parent directories and the one that does not.
LocalWriterImpls == {"UniversalIOWriter", "LocalFileWriter"}

\* The step of WriteToLocal at which the file system fails, if any.
LocalFailures == {"none", "mkdir", "create", "copy"}

\* WriteToLocal(ctx, path, contentReader) of implementation impl on the file
\* system (fs, ds): the source delivers n bytes when the copy fails.
WriteToLocal(impl, path, source, n, failure, fs, ds) ==
    LET outputDir == Dir(path)
        makes == impl = "UniversalIOWriter" /\ outputDir # <<>> /\ outputDir # <<".">>
        ds1   == IF makes /\ failure # "mkdir" THEN ds \cup {outputDir} ELSE ds
    IN  IF makes /\ failure = "mkdir"
        THEN [err |-> Err("WriteFailed", "WriteToLocal.MkdirAll", "mkdir"),
              files |-> fs, dirs |-> ds, bytesRead |-> 0, fileCloses |-> 0]
        ELSE IF failure = "create" \/ (outputDir # <<".">> /\ outputDir \notin ds1)
        THEN [err |-> Err("WriteFailed", "WriteToLocal.Create", "create"),
              files |-> fs, dirs |-> ds1, bytesRead |-> 0, fileCloses |-> 0]
        ELSE IF failure = "copy"
        THEN [err |-> Err("WriteFailed", "WriteToLocal.Copy", "copy"),
              files |-> [fs EXCEPT ![Clean(path)] = <<SliceTo(source, n)>>],
              dirs |-> ds1, bytesRead |-> n, fileCloses |-> 1]
        ELSE [err |-> NoErr,
              files |-> [fs EXCEPT ![Clean(path)] = <<source>>],
              dirs |-> ds1, bytesRead |-> Len(source), fileCloses |-> 1]

\* What a call of WriteToGCS leaves behind, given its result res: how many
\* bytes it took from the source and the object that became visible at the
\* destination (<<>>: none). storage.Writer.Close is what triggers the upload:
\* after a complete copy it uploads the whole source; called on the failure
\* path after the source gave n bytes and an error, it uploads those n bytes.
WriteEffect(res, source, n, copy, commit) ==
    IF ~res.session \/ res.panic
    THEN [bytesRead |-> 0, stored |-> <<>>]
    ELSE IF res.err = NoErr
    THEN [bytesRead |-> Len(source),
          stored |-> <<[content |-> source, contentType |-> res.contentType]>>]
    ELSE IF res.err.kind = "CommitFailed"
    THEN [bytesRead |-> Len(source), stored |-> <<>>]
    ELSE IF copy = "SourceError" /\ commit = "ok"
    THEN [bytesRead |-> n,
          stored |-> <<[content |-> SliceTo(source, n), contentType |-> res.contentType]>>]
    ELSE [bytesRead |-> n, stored |-> <<>>]

\* The context the caller passes to its calls: one that stays live, or one
\* that was cancelled before the first call.
Contexts == {"live", "cancelled"}

\* The record of an Open, WriteToGCS or WriteToLocal call; fault is the
\* failure the source, the sink or the file system had in store for it.
IoRecord(ctx, op, path, bucketName, objectPath, contentType, source, fault, err, uses, session, sinkCloses, typeSet, bytesRead, stream, data, stored) ==
    [ctx |-> ctx, op |-> op, path |-> path, fault |-> fault, bucketName |-> bucketName, objectPath |-> objectPath,
     contentType |-> contentType, source |-> source, err |-> err, uses |-> uses,
     session |-> session, sinkCloses |-> sinkCloses, typeSet |-> typeSet,
     bytesRead |-> bytesRead, stream |-> stream, data |-> data, stored |-> stored]

NoIo == IoRecord("live", "none", <<>>, <<>>, <<>>, "", <<>>, "none", NoErr, 0, FALSE, 0, "", 0, FALSE, <<>>, <<>>)

\* The malformed remote locations a caller may pass to Open, and one that
\* names no object of the store.
OpenPaths ==
    Destinations \cup
    { GCSPrefix, GCSPrefix \o <<"b">>, GCSPrefix \o <<Slash, "k">>,
      GCSPrefix \o <<"b", Slash>>, GCSPrefix \o <<"k", Slash, "k">> }

\* What the store or the file system answers when the reader asks for path
\* under context ctx. NewReader(ctx) fails under a cancelled context; os.Open
\* takes no context.
ReadOutcome(r, path, ctx) ==
    IF OpenRoute(path) = "gcs"
    THEN IF ctx = "cancelled" THEN "Canceled"
         ELSE IF /\ Len(SplitN2(SliceFrom(path, 5), Slash)) = 2
            /\ ObjectOf(path) \in ObjectNames
            /\ objects[ObjectOf(path)] # <<>>
         THEN "ok" ELSE "NotFound"
    ELSE IF path \in LocalPaths /\ files[path] # <<>> THEN "ok" ELSE "NotFound"

\* reader.Open(ctx, path), then the stream is read to its end.
IoOpen ==
    /\ UNCHANGED <<uriVars, lifeVars, cliVars>>
    /\ ~ioCrashed
    /\ \E path \in OpenPaths :
          LET ctx  == ioLast.ctx
              res  == Open(ioReader, path, ReadOutcome(ioReader, path, ctx))
              data == IF ~res.stream THEN <<>>
                      ELSE IF OpenRoute(path) = "gcs"
                           THEN objects[ObjectOf(path)][1]
                           ELSE files[path][1]
          IN  /\ ioLast' = IoRecord(ctx, "Open", path, <<>>, <<>>, "", <<>>, "none", res.err, res.uses,
                                    FALSE, 0, "", 0, res.stream, data, <<>>)
              /\ ioCrashed' = res.panic
    /\ UNCHANGED <<ioReader, ioWriter, ioFacet, objects, files, dirs, written>>

\* The content types a caller passes: none, or one of its own.
ContentTypes == {"", "image/png"}

\* writer.WriteToGCS(ctx, bucketName, objectPath, source, contentType). The
\* store refuses an upload to an empty bucket or object name; a writer whose
\* Write failed fails its Close as well; the writer that takes its content as
\* a string has no source stream that can fail. The storage.Writer made by
\* NewWriter(ctx) uploads nothing once ctx is cancelled: its Close fails.
IoWriteToGCS ==
    /\ UNCHANGED <<uriVars, lifeVars, cliVars>>
    /\ ~ioCrashed
    /\ ioFacet = "GCSOutputWriter"
    /\ \E bucketName \in Buckets \cup {<<>>}, objectPath \in Keys \cup {<<>>},
          contentType \in ContentTypes, source \in Contents,
          copy \in CopyOutcomes, commit \in CommitOutcomes :
        /\ ioLast.ctx = "cancelled" => commit # "ok"
        /\ (bucketName = <<>> \/ objectPath = <<>>) => commit # "ok"
        /\ copy = "SinkError" => commit # "ok"
        /\ ioWriter.impl = "GCSFileWriter.string" => copy # "SourceError"
        /\ \E n \in IF copy = "SourceError" THEN 0..Len(source) ELSE {Len(source)} :
             LET res  == WriteToGCS(ioWriter, bucketName, objectPath, contentType,
                                    copy, commit, "ok")
                 eff  == WriteEffect(res, source, n, copy, commit)
                 name == <<bucketName, objectPath>>
                 uri  == TargetURI(bucketName, objectPath)
             IN  /\ objects' = IF eff.stored # <<>> /\ name \in ObjectNames
                               THEN [objects EXCEPT ![name] = <<eff.stored[1].content>>]
                               ELSE objects
                 /\ written' = IF uri \in Destinations
                               THEN [written EXCEPT ![uri] =
                                        IF res.err = NoErr /\ ~res.panic
                                        THEN <<source>> ELSE <<>>]
                               ELSE written
                 /\ ioLast' = IoRecord(ioLast.ctx, "WriteToGCS", uri, bucketName, objectPath,
                                       contentType, source,
                                       IF copy # "ok" THEN copy
                                       ELSE IF commit # "ok" THEN commit ELSE "none",
                                       res.err, res.uses, res.session,
                                       res.sinkCloses, res.contentType, eff.bytesRead,
                                       FALSE, <<>>, eff.stored)
                 /\ ioCrashed' = res.panic
    /\ UNCHANGED <<ioReader, ioWriter, ioFacet, files, dirs>>

\* writer.WriteToLocal(ctx, path, source): the context is not looked at.
IoWriteToLocal ==
    /\ UNCHANGED <<uriVars, lifeVars, cliVars>>
    /\ ~ioCrashed
    /\ ioFacet \in {"LocalOutputWriter", "LocalOutputWriter.remote"}
    /\ \E path \in IF ioFacet = "LocalOutputWriter" THEN LocalPaths
                    ELSE LocalWritePaths \ LocalPaths,
          source \in Contents, failure \in LocalFailures :
        \E n \in IF failure = "copy" THEN 0..Len(source) ELSE {Len(source)} :
          LET res == WriteToLocal(ioWriter.impl, path, source, n, failure, files, dirs)
          IN  /\ files' = res.files
              /\ dirs' = res.dirs
              /\ written' = IF path \in Destinations
                            THEN [written EXCEPT ![path] =
                                     IF res.err = NoErr THEN <<source>> ELSE <<>>]
                            ELSE written
              /\ ioLast' = IoRecord(ioLast.ctx, "WriteToLocal", path, <<>>, <<>>, "", source, failure, res.err, 0,
                                    FALSE, res.fileCloses, "", res.bytesRead, FALSE, <<>>,
                                    IF res.err = NoErr
                                    THEN <<[content |-> source, contentType |-> ""]>>
                                    ELSE <<>>)
    /\ UNCHANGED <<ioReader, ioWriter, ioFacet, objects, ioCrashed>>

\* An empty store and file system.
EmptyStores ==
    /\ objects = [o \in ObjectNames |-> <<>>]
    /\ files = [p \in FilePaths |-> <<>>]
    /\ dirs = {}
    /\ written = [d \in Destinations |-> <<>>]
    /\ ioLast = NoIo
    /\ ioCrashed = FALSE

IoIdle ==
    /\ ioReader = NewLocalGCSInputReader(NIL)
    /\ ioWriter = NewWriter("UniversalIOWriter", NIL)
    /\ ioFacet = "GCSOutputWriter"
    /\ EmptyStores

\* ------------------------------------------------- the command line program

\* The command lines of a run. form: "ok" has the one path argument the
\* command requires, "bad" has another number of arguments, "help" asks for
\* the usage text. output is the --output flag, empty for the standard output.
CliArgs ==
    [ form   : {"ok", "bad", "help"},
      input  : {TargetURI(<<"b">>, <<"k">>), GCSPrefix \o <<"b">>, <<"b">>},
      output : {<<>>, TargetURI(<<"b">>, <<"k">>), GCSPrefix \o <<"b">>, <<"b">>} ]

\* What writing to a local file or to the standard output may give.
LocalWriteOutcomes == {"ok", "DiskError"}

\* f.Close() run to completion by one caller, on factory record f with the
\* storage clients cs and the result of storage.Client.Close.
CloseSequential(rev, f, cs, outcome) ==
    IF rev = "NilAfterClose" /\ f.gcsClient = NIL
    THEN [f |-> f, clients |-> cs, err |-> NoErr, released |-> 0]
    ELSE [f |-> [f EXCEPT !.gcsClient = FieldAfterClose(rev, @)],
          clients |-> [cs EXCEPT ![f.gcsClient].closeCalls = @ + 1],
          err |-> ReleaseError(outcome), released |-> 1]

\* Where the copy command sends its output.
OutputRoute(cmd, outputPath) ==
    IF outputPath = <<>> THEN "stdout"
    ELSE IF cmd = "runRemoteRead" THEN RemoteReadOutputRoute(outputPath)
    ELSE RcopyOutputRoute(outputPath)

\* The writer the copy command asks the factory for.
CommandWriter(cmd, client) ==
    NewWriter(IF cmd = "runRemoteRead" THEN "GCSFileWriter.parse" ELSE "UniversalIOWriter",
              client)

\* rootCmd.Execute() begins: cobra handles the help flag and checks
\* Args: cobra.ExactArgs(1) before it runs PersistentPreRunE.
CliValidateArgs ==
    /\ UNCHANGED <<uriVars, lifeVars, ioVars>>
    /\ cliPc = "start"
    /\ IF args.form = "ok"
       THEN cliPc' = "preRun" /\ UNCHANGED cmdErr
       ELSE /\ cliPc' = "returned"
            /\ cmdErr' = IF args.form = "help" THEN <<NoErr>>
                         ELSE <<Err("InvalidArguments", "cobra.ExactArgs", "nil")>>
    /\ UNCHANGED <<command, args, cliFactory, factoryInstance, cliClients, rc, events, exitCode>>

\* PersistentPreRunE: initAppPreRunE constructs the factory and the closure
\* stores it in Execute's factoryInstance.
CliPreRun ==
    /\ UNCHANGED <<uriVars, lifeVars, ioVars>>
    /\ cliPc = "preRun"
    /\ \E outcome \in {"ok"} \cup InitCauses :
          LET r == NewClientFactory(outcome, cliClients)
          IN  IF r.err # NoErr
              THEN /\ cmdErr' = <<r.err>>
                   /\ cliPc' = "returned"
                   /\ UNCHANGED <<cliFactory, factoryInstance, cliClients>>
              ELSE /\ cliFactory' = r.f
                   /\ cliClients' = r.clients
                   /\ factoryInstance' = 1
                   /\ cliPc' = "open"
                   /\ UNCHANGED cmdErr
    /\ UNCHANGED <<command, args, rc, events, exitCode>>

\* The copy command takes a reader from the factory and opens the input.
CliOpenInput ==
    /\ UNCHANGED <<uriVars, lifeVars, ioVars>>
    /\ cliPc = "open"
    /\ LET r == NewLocalGCSInputReader(cliFactory[1].gcsClient)
       IN \E outcome \in IF OpenRoute(args.input) = "gcs"
                          THEN ClientOutcomes(FALSE) ELSE LocalOutcomes :
            LET res == Open(r, args.input, outcome)
            IN  /\ cliClients' = ClientsAfterUse(cliClients, r.client, res.uses)
                /\ IF res.err # NoErr
                   THEN /\ cmdErr' = <<res.err>>
                        /\ cliPc' = "returned"
                        /\ UNCHANGED <<rc, events>>
                   ELSE /\ rc' = "open"
                        /\ events' = Append(events, "open")
                        /\ cliPc' = "transfer"
                        /\ UNCHANGED cmdErr
    /\ UNCHANGED <<command, args, cliFactory, factoryInstance, exitCode>>

\* Whether the copy command asks the factory for a writer on the way to out:
\* for a remote output always; for a local one runRcopy does, runRemoteRead
\* creates the file itself.
AsksForWriter(cmd, out) == out = "gcs" \/ (out = "local" /\ cmd = "runRcopy")

\* The copy command sends the stream to the standard output, to a local file
\* or to the object its output URI names; made: NewOutputWriter gave a writer.
CliTransfer ==
    /\ UNCHANGED <<uriVars, lifeVars, ioVars>>
    /\ cliPc = "transfer"
    /\ \E copy \in CopyOutcomes, commit \in CommitOutcomes, disk \in LocalWriteOutcomes,
          made \in BOOLEAN :
          LET out == OutputRoute(command, args.output)
              p   == ParseGCSURI(args.output)
              w   == CommandWriter(command, cliFactory[1].gcsClient)
              res == WriteToGCS(w, p.bucketName, p.objectPath, "", copy, commit, "ok")
          IN  IF AsksForWriter(command, out) /\ ~made
              THEN /\ cmdErr' = <<Err("FactoryClosed", "NewOutputWriter", "nil")>>
                   /\ UNCHANGED <<cliClients, events>>
              ELSE IF out = "gcs" /\ p.err # NoErr
              THEN /\ cmdErr' = <<p.err>>
                   /\ UNCHANGED <<cliClients, events>>
              ELSE IF out = "gcs"
              THEN /\ cmdErr' = <<res.err>>
                   /\ cliClients' = ClientsAfterUse(cliClients, w.client, res.uses)
                   /\ events' = Append(events, "write")
              ELSE /\ cmdErr' = <<IF disk = "ok" THEN NoErr
                                  ELSE Err("WriteFailed", "io.Copy", disk)>>
                   /\ events' = Append(events, "write")
                   /\ UNCHANGED cliClients
    /\ cliPc' = "streamClose"
    /\ UNCHANGED <<command, args, cliFactory, factoryInstance, rc, exitCode>>

\* The command returns without having deferred rc.Close().
CliStreamClose_NoRelease ==
    /\ UNCHANGED <<uriVars, lifeVars, ioVars>>
    /\ cliPc = "streamClose"
    /\ cliPc' = "returned"
    /\ UNCHANGED <<command, args, cliFactory, factoryInstance, cliClients, cmdErr, exitCode,
                   rc, events>>

\* The command closes the stream itself and its deferred rc.Close() runs too.
CliStreamClose_Twice ==
    /\ UNCHANGED <<uriVars, lifeVars, ioVars>>
    /\ cliPc = "streamClose"
    /\ rc' = "closed"
    /\ events' = Append(Append(events, "streamClose"), "streamClose")
    /\ cliPc' = "returned"
    /\ UNCHANGED <<command, args, cliFactory, factoryInstance, cliClients, cmdErr, exitCode>>

\* The command returns and its deferred rc.Close() runs.
CliStreamClose ==
    /\ UNCHANGED <<uriVars, lifeVars, ioVars>>
    /\ cliPc = "streamClose"
    /\ rc' = "closed"
    /\ events' = Append(events, "streamClose")
    /\ cliPc' = "returned"
    /\ UNCHANGED <<command, args, cliFactory, factoryInstance, cliClients, cmdErr, exitCode>>

\* rootCmd.Execute() has returned to Execute: when it returned an error
\* Execute calls os.Exit(1), which ends the process without running deferred
\* functions; else Execute returns and its deferred function runs.
CliExecuteReturn ==
    /\ UNCHANGED <<uriVars, lifeVars, ioVars>>
    /\ cliPc = "returned"
    /\ IF cmdErr[1] # NoErr
       THEN /\ exitCode' = <<1>>
            /\ events' = Append(events, "exit")
            /\ cliPc' = "exited"
       ELSE /\ cliPc' = "deferred"
            /\ UNCHANGED <<exitCode, events>>
    /\ UNCHANGED <<command, args, cliFactory, factoryInstance, cliClients, rc, cmdErr>>

\* Execute's deferred function: Close the factory when one was stored.
CliDeferredClose ==
    /\ UNCHANGED <<uriVars, lifeVars, ioVars>>
    /\ cliPc = "deferred"
    /\ IF factoryInstance # NIL
       THEN \E outcome \in ReleaseOutcomes :
               LET r == CloseSequential(revision, cliFactory[factoryInstance], cliClients, outcome)
               IN  /\ cliFactory' = <<r.f>>
                   /\ cliClients' = r.clients
                   /\ events' = Append(Append(events, "factoryClose"), "exit")
       ELSE /\ events' = Append(events, "exit")
            /\ UNCHANGED <<cliFactory, cliClients>>
    /\ exitCode' = <<0>>
    /\ cliPc' = "exited"
    /\ UNCHANGED <<command, args, factoryInstance, rc, cmdErr>>

CliIdle ==
    /\ command = "runRcopy"
    /\ args = [form |-> "help", input |-> <<>>, output |-> <<>>]
    /\ cliPc = "off"
    /\ cliFactory = <<>>
    /\ factoryInstance = NIL
    /\ cliClients = <<>>
    /\ rc = "none"
    /\ cmdErr = <<>>
    /\ events = <<>>
    /\ exitCode = <<>>

\* ------------------------------------------- specification of the factory

\* The variables of a part of the model that a specification does not exercise
\* stay at these values.
UriIdle ==
    /\ location = <<>>
    /\ given = <<>>
    /\ route = "unset"
    /\ outRoute = "unset"
    /\ parsed = <<>>

LifeIdle ==
    /\ revision = "NilAfterClose"
    /\ factory = <<>>
    /\ initErr = <<>>
    /\ clients = <<>>
    /\ components = <<>>
    /\ pc = [t \in Goroutines |-> "idle"]
    /\ loc = [t \in Goroutines |-> IdleLocals]
    /\ calls = <<>>
    /\ closeStarted = 0
    /\ closeReturned = 0
    /\ crashed = FALSE

\* Before NewClientFactory: no factory, no client, every goroutine idle.
Init ==
    /\ UriIdle
    /\ CliIdle
    /\ IoIdle
    /\ revision \in FactoryRevisions
    /\ factory = <<>>
    /\ initErr = <<>>
    /\ clients = <<>>
    /\ components = <<>>
    /\ pc = [t \in Goroutines |-> "idle"]
    /\ loc = [t \in Goroutines |-> IdleLocals]
    /\ calls = <<>>
    /\ closeStarted = 0
    /\ closeReturned = 0
    /\ crashed = FALSE

Next ==
    \/ Construct
    \/ \E t \in Goroutines :
          \/ CloseCall(t) \/ CloseCheck(t) \/ CloseRelease(t) \/ CloseReturn(t)
          \/ GetCall(t) \/ GetCheck(t) \/ GetBuild(t)
          \/ OpenCall(t) \/ WriteCall(t)

\* ---------------------------------------------- specification of the URI rules

\* Scheme-like beginnings a caller may type: the prefix itself, its case
\* variants, its truncations, and a shifted one.
Heads ==
    { <<>>, GCSPrefix,
      <<"G", "S", ":", "/", "/">>, <<"g", "S", ":", "/", "/">>,
      <<"g", "s", ":", "/">>, <<"g", "s", ":">>, <<"g", "s", "/", "/">>,
      <<"s", ":", "/", "/">>, <<"/", "g", "s", ":", "/", "/">>, <<"b">> }

TailChars == {"b", "k", Slash}

Tails == SeqsUpTo(TailChars, MaxTail)

Locations == {h \o t : h \in Heads, t \in Tails}

\* Non-empty bucket names without a separator.
BucketNames == SeqsUpTo({"b", "k"}, MaxBucket) \ {<<>>}

InitURI ==
    /\ LifeIdle
    /\ CliIdle
    /\ IoIdle
    /\ route = "unset"
    /\ outRoute = "unset"
    /\ parsed = <<>>
    /\ \/ /\ given = <<>>
          /\ location \in Locations
       \/ \E c \in BucketNames, k \in Tails :
             /\ given = <<[bucketName |-> c, objectPath |-> k]>>
             /\ location = TargetURI(c, k)

\* LocalGCSInputReader.Open classifies the path it is given.
ClassifyInput ==
    /\ UNCHANGED <<lifeVars, cliVars, ioVars>>
    /\ route = "unset"
    /\ route' = OpenRoute(location)
    /\ UNCHANGED <<location, given, outRoute, parsed>>

\* The copy command classifies its output path.
ClassifyOutput ==
    /\ UNCHANGED <<lifeVars, cliVars, ioVars>>
    /\ outRoute = "unset"
    /\ \E rev \in CommandRevisions :
          outRoute' = IF rev = "runRemoteRead" THEN RemoteReadOutputRoute(location)
                      ELSE RcopyOutputRoute(location)
    /\ UNCHANGED <<location, given, route, parsed>>

\* A caller parses the location with ParseGCSURI.
ParseLocation ==
    /\ UNCHANGED <<lifeVars, cliVars, ioVars>>
    /\ parsed = <<>>
    /\ parsed' = <<ParseGCSURI(location)>>
    /\ UNCHANGED <<location, given, route, outRoute>>

NextURI == ClassifyInput \/ ClassifyOutput \/ ParseLocation

\* ------------------------------------- specification of the command line run

\* The process has started and Execute is about to call rootCmd.Execute().
InitCLI ==
    /\ UriIdle
    /\ LifeIdle
    /\ IoIdle
    /\ command \in CommandRevisions
    /\ args \in CliArgs
    /\ cliPc = "start"
    /\ cliFactory = <<>>
    /\ factoryInstance = NIL
    /\ cliClients = <<>>
    /\ rc = "none"
    /\ cmdErr = <<>>
    /\ events = <<>>
    /\ exitCode = <<>>

NextCLI ==
    \/ CliValidateArgs \/ CliPreRun \/ CliOpenInput \/ CliTransfer
    \/ CliStreamClose \/ CliExecuteReturn \/ CliDeferredClose

\* ------------------------------------- specification of the reads and writes

\* A reader and a writer have been constructed on the same client, or both
\* on none, and the caller holds the writer by one of the interfaces it
\* implements; the store and the file system are empty.
InitIO ==
    /\ UriIdle
    /\ LifeIdle
    /\ CliIdle
    /\ \E c \in {NIL, 1} :
          /\ ioReader = NewLocalGCSInputReader(c)
          /\ \/ /\ ioFacet = "GCSOutputWriter"
                /\ ioWriter \in {NewWriter(impl, c) : impl \in WriterImpls}
             \/ /\ ioFacet \in {"LocalOutputWriter", "LocalOutputWriter.remote"}
                /\ ioWriter \in {NewWriter("UniversalIOWriter", c),
                                 NewWriter("LocalFileWriter", NIL)}
    /\ objects = [o \in ObjectNames |-> <<>>]
    /\ files = [p \in FilePaths |-> <<>>]
    /\ dirs = {}
    /\ written = [d \in Destinations |-> <<>>]
    /\ ioLast \in {[NoIo EXCEPT !.ctx = ctx] : ctx \in Contexts}
    /\ ioCrashed = FALSE

NextIO == IoOpen \/ IoWriteToGCS \/ IoWriteToLocal

vars == <<uriVars, lifeVars, cliVars, ioVars>>

Spec == Init /\ [][Next]_vars

SpecURI == InitURI /\ [][NextURI]_vars

SpecCLI == InitCLI /\ [][NextCLI]_vars

SpecIO == InitIO /\ [][NextIO]_vars

\* ======================================================================
\* Claims
\* ======================================================================

\* The location begins with the five characters g, s, :, /, / (stated
\* character by character, independently of HasPrefix).
BeginsWithScheme(s) ==
    /\ Len(s) >= 5
    /\ s[1] = "g" /\ s[2] = "s" /\ s[3] = ":" /\ s[4] = "/" /\ s[5] = "/"

\* The calls that asked the factory for a reader or a writer.
IsGetter(call) == call.op \in {"GetRemoteInputReader", "GetGCSOutputWriter"}

\* The state of the factory's three-state machine.
FactoryState ==
    IF factory = <<>> THEN "Uninitialized"
    ELSE IF factory[1].gcsClient # NIL THEN "Ready" ELSE "Closed"

\* C1: teardown is idempotent. When Close() is called twice in sequence on a
\* factory that was Ready (the second call entered after the first returned,
\* and no other Close was made), the storage client's Close has been invoked
\* exactly once, and the second Close() returned nil without invoking it.
C1_CloseTwiceReleasesOnce ==
    \A i \in DOMAIN calls, j \in DOMAIN calls :
        ( /\ initErr = <<NoErr>>
          /\ closeStarted = 2
          /\ calls[i].op = "Close" /\ calls[i].closesStartedBefore = 0
          /\ calls[j].op = "Close" /\ calls[j].closesReturnedBefore = 1 )
        => /\ calls[j].err = NoErr
           /\ calls[j].released = 0
           /\ \A c \in DOMAIN clients : clients[c].closeCalls = 1

\* C1, for the revision of the factory that clears its field in Close only.
C1_InNilAfterClose == revision = "NilAfterClose" => C1_CloseTwiceReleasesOnce

\* C2: once a Close() has returned, every request for a reader or a writer
\* that is made afterwards fails with the FactoryClosed error and returns no
\* component.
C2_GetterFailsAfterClose ==
    \A i \in DOMAIN calls :
        (IsGetter(calls[i]) /\ calls[i].closesReturnedBefore >= 1)
        => /\ calls[i].err.kind = "FactoryClosed"
           /\ calls[i].comp = 0

\* C2, for the revision of the factory whose getters check the field only.
C2_InNilAfterClose == revision = "NilAfterClose" => C2_GetterFailsAfterClose

\* C3: a reader or writer issued before Close() fails every remote operation
\* (Open of a gs:// location, WriteToGCS) attempted after Close() has returned
\* with BackendUnavailable, and makes no call into the released client.
\* Stated for the factory revision whose Close clears the field.
C3_IssuedComponentFailsAfterClose ==
    revision = "NilAfterClose" =>
        \A i \in DOMAIN calls :
            ( /\ calls[i].op \in {"Open", "WriteToGCS"}
              /\ calls[i].kind = "gcs"
              /\ calls[i].closesReturnedBefore >= 1
              /\ components[calls[i].comp].closesStartedAtIssue = 0 )
            => /\ ~crashed
               /\ calls[i].err.kind = "BackendUnavailable"
               /\ calls[i].uses = 0
               /\ calls[i].usesAfterClose = 0

\* C4: Close() is safe to call concurrently with itself. Under every
\* interleaving of Close() calls on one Ready factory the storage client's
\* Close is invoked at most once, and exactly once when a Close() has
\* returned. Stated for the factory revision whose Close clears the field.
C4_ConcurrentCloseReleasesOnce ==
    (revision = "NilAfterClose" /\ initErr = <<NoErr>>) =>
        \A c \in DOMAIN clients :
            /\ clients[c].closeCalls <= 1
            /\ closeReturned >= 1 => clients[c].closeCalls = 1

\* C5: the factory moves only along Uninitialized -> Ready -> Closed, and
\* Closed is terminal: when a Close() has returned the factory is Closed, no
\* step takes it from Closed to another state, and no step after construction
\* constructs a storage client. Stated for the factory revision whose Close
\* clears the field.
C5_ClosedIsTerminal ==
    [][ revision = "NilAfterClose" =>
          /\ <<FactoryState, FactoryState'>> \in
                { <<"Uninitialized", "Uninitialized">>, <<"Uninitialized", "Ready">>,
                  <<"Ready", "Ready">>, <<"Ready", "Closed">>, <<"Closed", "Closed">> }
          /\ closeReturned' >= 1 => FactoryState' = "Closed"
          /\ FactoryState # "Uninitialized" => Len(clients') = Len(clients) ]_vars

\* C5 witness: the factory is Closed and a reader or writer was requested
\* after the Close() had returned.
C5_Witness ==
    /\ revision = "NilAfterClose"
    /\ FactoryState = "Closed"
    /\ \E i \in DOMAIN calls : IsGetter(calls[i]) /\ calls[i].closesReturnedBefore >= 1

\* C6: at the command line boundary the factory's Close() runs on every exit
\* path of Execute once the factory has been constructed: when the process has
\* exited and Execute held a factory, the factory's Close() has run.
C6_CloseOnEveryExitPath ==
    (cliPc = "exited" /\ factoryInstance # NIL) =>
        \E i \in DOMAIN events : events[i] = "factoryClose"

\* C6 on the path of a successful command only.
C6_CloseAfterSuccess ==
    (cliPc = "exited" /\ factoryInstance # NIL /\ exitCode = <<0>>) =>
        /\ \E i \in DOMAIN events : events[i] = "factoryClose"
        /\ cliClients[1].closeCalls = 1

C8_InitFailureLeavesNoFactory ==
    (initErr # <<>> /\ initErr[1] # NoErr) =>
        /\ initErr[1].kind = "InitializationFailed"
        /\ initErr[1].cause \in InitCauses
        /\ factory = <<>>
        /\ clients = <<>>
        /\ components = <<>>
        /\ \A i \in DOMAIN calls : calls[i].comp = 0

\* C8 witness: construction failed and a caller that went on to ask for a
\* reader or writer panicked on the nil factory.
C8_Witness ==
    /\ initErr # <<>>
    /\ initErr[1].kind = "InitializationFailed"
    /\ crashed
    /\ \E t \in Goroutines : pc[t] = "Get.check"

\* C9: classification is total and deterministic. Every location can be
\* classified (the classifying step is enabled and raises nothing), it is
\* treated as remote exactly when it begins with the case-sensitive prefix
\* gs://, and as a local path otherwise; there is no third treatment. This
\* holds for the reader's dispatch in Open and for the copy command's
\* dispatch of its output path.
C9_ClassificationTotal ==
    /\ route = "unset" => ENABLED ClassifyInput
    /\ outRoute = "unset" => ENABLED ClassifyOutput
    /\ route # "unset" =>
          /\ route \in {"gcs", "local"}
          /\ route = "gcs" <=> BeginsWithScheme(location)
    /\ outRoute # "unset" =>
          /\ outRoute \in {"gcs", "local"}
          /\ outRoute = "gcs" <=> BeginsWithScheme(location)

\* C9 witness: a location that differs from a remote one only by the case of
\* its scheme has been classified as a local path, by the reader and by the
\* command.
C9_Witness ==
    /\ HasPrefix(location, <<"G", "S", ":", "/", "/", "b", "/", "k">>)
    /\ route = "local"
    /\ outRoute = "local"

\* C10: for every location gs://c/k with non-empty c, ParseGCSURI returns
\* exactly (c, k) and no error, cutting at the first "/" after the prefix so
\* that k keeps any further "/"; for every location that lacks the gs://
\* prefix, ParseGCSURI fails with InvalidReference and returns no names.
C10_ParseExact ==
    parsed # <<>> =>
        /\ given # <<>> =>
              parsed[1] = [bucketName |-> given[1].bucketName,
                           objectPath |-> given[1].objectPath,
                           err |-> NoErr]
        /\ BeginsWithScheme(location) =>
              LET rest == SubSeq(location, 6, Len(location))
              IN  \A i \in 2..Len(rest) :
                     (rest[i] = Slash /\ \A j \in 1..(i - 1) : rest[j] # Slash) =>
                         parsed[1] = [bucketName |-> SubSeq(rest, 1, i - 1),
                                      objectPath |-> SubSeq(rest, i + 1, Len(rest)),
                                      err |-> NoErr]
        /\ ~BeginsWithScheme(location) =>
              /\ parsed[1].err.kind = "InvalidReference"
              /\ parsed[1].bucketName = <<>>
              /\ parsed[1].objectPath = <<>>

\* C10 witness: a location formatted from a bucket and a key that itself
\* contains a "/" has been parsed.
C10_Witness ==
    /\ parsed # <<>>
    /\ given # <<>>
    /\ \E i \in 1..Len(given[1].objectPath) : given[1].objectPath[i] = Slash

\* The container part of a location with the gs:// prefix: what stands between
\* the prefix and the first separator, or the end of the string.
ContainerPart(uri) ==
    LET rest == SliceFrom(uri, 5)
    IN  IF Index(rest, Slash) = -1 THEN rest ELSE SliceTo(rest, Index(rest, Slash))

\* C11: a successful parse never yields an empty container: ParseGCSURI of a
\* gs:// location whose container part is empty fails with InvalidReference,
\* and no successful result has an empty bucket name.
C11_NoEmptyContainer ==
    parsed # <<>> =>
        /\ parsed[1].err = NoErr => parsed[1].bucketName # <<>>
        /\ (HasPrefix(location, GCSPrefix) /\ ContainerPart(location) = <<>>)
              => parsed[1].err.kind = "InvalidReference"

\* C11 for the locations that have a separator after the prefix.
C11_WithSeparator ==
    (parsed # <<>> /\ Index(SliceFrom(location, 5), Slash) # -1) => C11_NoEmptyContainer

\* C12: a container-only reference parses successfully. For gs://bucket with
\* a non-empty bucket and no separator after it ParseGCSURI returns
\* (bucket, "") and no error; the empty key is then rejected with
\* InvalidReference by the writer the copy command hands the result to, and
\* by the reader when the same location is opened.
C12_ContainerOnlyParses ==
    ( /\ parsed # <<>>
      /\ HasPrefix(location, GCSPrefix)
      /\ SliceFrom(location, 5) # <<>>
      /\ Index(SliceFrom(location, 5), Slash) = -1 )
    => /\ parsed[1] = [bucketName |-> SliceFrom(location, 5), objectPath |-> <<>>,
                       err |-> NoErr]
       /\ WriteToGCS(NewWriter("UniversalIOWriter", 1), parsed[1].bucketName,
                     parsed[1].objectPath, "", "ok", "ok", "ok").err.kind = "InvalidReference"
       /\ Open(NewLocalGCSInputReader(1), location, "ok").err.kind = "InvalidReference"

\* C12 witness: a location gs://bucket without separator has been parsed.
C12_Witness ==
    /\ parsed # <<>>
    /\ HasPrefix(location, GCSPrefix)
    /\ Len(location) > 5
    /\ Index(SliceFrom(location, 5), Slash) = -1

\* A remote location without a separator after the container, with an empty
\* container, or with an empty key.
Malformed(uri) ==
    LET rest == SliceFrom(uri, 5)
    IN  \/ Index(rest, Slash) = -1
        \/ ContainerPart(uri) = <<>>
        \/ SliceFrom(rest, Index(rest, Slash) + 1) = <<>>

C14_NilClientOpenFails ==
    ( /\ ioLast.op = "Open"
      /\ ioReader.client = NIL
      /\ OpenRoute(ioLast.path) = "gcs" )
    => /\ ioLast.err.kind = "BackendUnavailable"
       /\ ioLast.uses = 0
       /\ ~ioLast.stream
       /\ ~ioCrashed

\* C14 witness: a well-formed remote location has been opened through a
\* reader without a client.
C14_Witness ==
    /\ ioLast.op = "Open"
    /\ ioReader.client = NIL
    /\ ioLast.path = TargetURI(<<"b">>, <<"k", Slash, "k">>)

\* The latest call was a WriteToGCS with names and a client that let it reach
\* the copy.
WroteToObject ==
    /\ ioLast.op = "WriteToGCS"
    /\ ioLast.bucketName # <<>>
    /\ ioLast.objectPath # <<>>
    /\ ioWriter.client # NIL

\* C15: WriteToGCS called on a writer that has a client, with an empty bucket
\* name or an empty object path, returns InvalidReference before a write
\* session is created and before a byte is read from the source.
C15_EmptyNamesRejected ==
    ( /\ ioLast.op = "WriteToGCS"
      /\ ioWriter.client # NIL
      /\ ioLast.bucketName = <<>> \/ ioLast.objectPath = <<>> )
    => /\ ~ioCrashed
       /\ ioLast.err.kind = "InvalidReference"
       /\ ~ioLast.session
       /\ ioLast.uses = 0
       /\ ioLast.bytesRead = 0

\* C15 for the writer that implements both interfaces.
C15_InUniversalIOWriter == ioWriter.impl = "UniversalIOWriter" => C15_EmptyNamesRejected

\* C16: a partially transmitted remote write is never committed. When the
\* copy of UniversalIOWriter.WriteToGCS fails, no object becomes visible at
\* the destination.
C16_FailedCopyNotCommitted ==
    ( /\ WroteToObject
      /\ ioWriter.impl = "UniversalIOWriter"
      /\ ioLast.fault \in {"SourceError", "SinkError"} )
    => ioLast.stored = <<>>

\* C17: when the source stream fails after a partial delivery WriteToGCS
\* returns WriteFailed wrapping that failure, and the write sink it created
\* has been closed.
C17_SourceFailureReleasesSink ==
    (WroteToObject /\ ioLast.fault = "SourceError")
    => /\ ioLast.err.kind = "WriteFailed"
       /\ ioLast.err.cause = "SourceError"
       /\ ioLast.session
       /\ ioLast.sinkCloses = 1

\* C17 witness: a source stream of one byte failed before delivering it.
C17_Witness ==
    /\ WroteToObject
    /\ ioLast.fault = "SourceError"
    /\ ioLast.bytesRead < Len(ioLast.source)

\* C18: a failure of the final Close after a complete copy is reported as
\* CommitFailed, a failure of the copy as WriteFailed, and neither kind comes
\* from the other's failure point: CommitFailed is reported exactly for a
\* failed Close after the whole source was copied.
C18_CommitFailedIsDistinct ==
    (WroteToObject /\ ioWriter.impl = "UniversalIOWriter")
    => /\ ioLast.fault = "UploadError"
            => /\ ioLast.err.kind = "CommitFailed"
               /\ ioLast.err.cause = "UploadError"
               /\ ioLast.bytesRead = Len(ioLast.source)
       /\ ioLast.fault \in {"SourceError", "SinkError"} => ioLast.err.kind = "WriteFailed"
       /\ ioLast.err.kind = "CommitFailed" => ioLast.fault = "UploadError"
       /\ ioLast.err.kind = "WriteFailed" => ioLast.fault \in {"SourceError", "SinkError"}

\* C18 witness: the final Close of a complete copy failed.
C18_Witness ==
    /\ WroteToObject
    /\ ioWriter.impl = "UniversalIOWriter"
    /\ ioLast.fault = "UploadError"
    /\ ioLast.source # <<>>

\* C19: the content type set on a remote write is the caller's value when
\* that is non-empty and the default "text/plain; charset=utf-8" exactly
\* when the caller passed the empty string.
C19_ContentTypeApplied ==
    (ioLast.op = "WriteToGCS" /\ ioLast.session)
    => ioLast.typeSet = IF ioLast.contentType = "" THEN "text/plain; charset=utf-8"
                        ELSE ioLast.contentType

\* C19 for the writer that implements both interfaces.
C19_InUniversalIOWriter == ioWriter.impl = "UniversalIOWriter" => C19_ContentTypeApplied

\* C20: round trip. When the latest write call to a destination (WriteToGCS
\* for a bucket and key, WriteToLocal for a path) succeeded, opening that
\* destination through the reader, under a context that stays live, succeeds
\* and reading to the end yields exactly the bytes written.
C20_RoundTrip ==
    ( /\ ioLast.op = "Open"
      /\ ioLast.ctx = "live"
      /\ ioLast.path \in Destinations
      /\ written[ioLast.path] # <<>> )
    => /\ ioLast.err = NoErr
       /\ ioLast.stream
       /\ ioLast.data = written[ioLast.path][1]

\* C20 witness: a byte written to gs://b/k/k has been read back.
C20_Witness ==
    /\ ioLast.op = "Open"
    /\ ioLast.path = TargetURI(<<"b">>, <<"k", Slash, "k">>)
    /\ written[ioLast.path] = <<(<<"x">>)>>
    /\ ioLast.data = <<"x">>

\* C20 on the local side: a byte written to d/f has been read back.
C20_LocalWitness ==
    /\ ioLast.op = "Open"
    /\ ioLast.path = <<"d", Slash, "f">>
    /\ written[ioLast.path] = <<(<<"x">>)>>
    /\ ioLast.data = <<"x">>

\* A call of WriteToLocal that the file system does not fail, for a path
\* whose parent directory does not exist when the call is made.
WriteToMissingParent ==
    /\ ioLast'.op = "WriteToLocal"
    /\ ioLast'.fault = "none"
    /\ Dir(ioLast'.path) # <<".">>
    /\ Dir(ioLast'.path) \notin dirs

\* C21: WriteToLocal to a path whose parent directories do not exist creates
\* the missing parents, succeeds, and leaves a file whose content equals the
\* source stream.
C21_CreatesMissingParents ==
    [][WriteToMissingParent =>
          /\ ioLast'.err = NoErr
          /\ Dir(ioLast'.path) \in dirs'
          /\ files'[Clean(ioLast'.path)] = <<ioLast'.source>>]_vars

\* C21 for the writer that implements both facets: there the claim holds.
C21_InUniversalIOWriter ==
    [][(WriteToMissingParent /\ ioWriter.impl = "UniversalIOWriter") =>
          /\ ioLast'.err = NoErr
          /\ Dir(ioLast'.path) \in dirs'
          /\ files'[Clean(ioLast'.path)] = <<ioLast'.source>>]_vars

\* The latest call was made with a cancelled context and did not panic.
CalledCancelled ==
    /\ ioLast.op \in {"Open", "WriteToGCS", "WriteToLocal"}
    /\ ioLast.ctx = "cancelled"
    /\ ~ioCrashed

\* What a call leaves when it was aborted: an error, no stream, no object or
\* file content at the destination, and no write session left open.
Aborted ==
    /\ ioLast.err # NoErr
    /\ ~ioLast.stream
    /\ ioLast.stored = <<>>
    /\ ioLast.session => ioLast.sinkCloses = 1

\* C22: Open, WriteToGCS and WriteToLocal invoked with a cancelled context
\* abort with an error and leave no open stream, no half-created remote write
\* session and no bytes written.
C22_CancelAborts == CalledCancelled => Aborted

\* C22 for the remote operations, which hand the context to the storage
\* client: there the claim holds.
C22_RemoteCallsAbort ==
    ( /\ CalledCancelled
      /\ ioLast.op = "WriteToGCS" \/ (ioLast.op = "Open" /\ OpenRoute(ioLast.path) = "gcs") )
    => Aborted

\* A local write was requested for a location that classifies as remote.
WrongFacet ==
    /\ ioLast.op = "WriteToLocal"
    /\ OpenRoute(ioLast.path) = "gcs"

\* C23: WriteToLocal requested for a location that classifies as remote
\* (gs://...) returns an error instead of creating a local file.
C23_WrongFacetDetected ==
    WrongFacet => /\ ioLast.err # NoErr
                  /\ files[Clean(ioLast.path)] = <<>>

\* C24: a remote or local write copies the source in fixed-size chunks: the
\* source data held in memory at any moment is bounded by a constant that
\* does not depend on the size of the object.
C24_StreamsInChunks ==
    ( \/ ioLast.op = "WriteToGCS" /\ ioLast.session
      \/ ioLast.op = "WriteToLocal" /\ ioLast.sinkCloses = 1 )
    => Held(ioWriter.impl, ioLast.source) <= ChunkSize

\* C24 for the writers that copy with io.Copy: all but the one that takes its
\* content as a string.
C24_InStreamingWriters == ioWriter.impl # "GCSFileWriter.string" => C24_StreamsInChunks

\* C25: a request for a reader or a writer that races with Close() either
\* fails with the closed error or returns a component bound to the factory's
\* one client; it never returns, without error, a component bound to an
\* absent (nil) client. Stated for the factory revision whose Close clears
\* the field.
C25_GetterNeverBindsNil ==
    revision = "NilAfterClose" =>
        \A i \in DOMAIN calls :
            IsGetter(calls[i]) =>
                \/ calls[i].err.kind = "FactoryClosed" /\ calls[i].comp = 0
                \/ /\ calls[i].err = NoErr
                   /\ calls[i].comp \in DOMAIN components
                   /\ components[calls[i].comp].obj.client # NIL

\* C25 for the requests that no Close overlaps: there the claim holds.
C25_WithoutRace ==
    revision = "NilAfterClose" =>
        \A i \in DOMAIN calls :
            (IsGetter(calls[i]) /\ calls[i].err = NoErr
               /\ ~components[calls[i].comp].raced)
            => components[calls[i].comp].obj.client # NIL

\* C26: in a run of the command line program the factory is closed at most
\* once, and only after the input stream the copy command opened has been
\* released and the write has completed.
C26_FactoryClosedLast ==
    \A i \in DOMAIN events :
        events[i] = "factoryClose" =>
            /\ \A j \in DOMAIN events : events[j] = "factoryClose" => j = i
            /\ \A j \in DOMAIN events :
                  events[j] = "open" =>
                      j < i /\ \E k \in (j + 1)..(i - 1) : events[k] = "streamClose"
            /\ \A j \in DOMAIN events : events[j] \in {"write", "streamClose"} => j < i
            /\ rc # "open"
            /\ \A c \in DOMAIN cliClients : cliClients[c].closeCalls <= 1

\* C26 witness: a run that opened its input and wrote it has closed the
\* factory.
C26_Witness ==
    /\ \E i \in DOMAIN events : events[i] = "factoryClose"
    /\ \E i \in DOMAIN events : events[i] = "open"
    /\ \E i \in DOMAIN events : events[i] = "write"
    /\ cliClients[1].closeCalls = 1

\* How often event e has happened in the run.
Count(e) == Cardinality({i \in DOMAIN events : events[i] = e})

\* C27: the read stream a successful Open returned is released exactly once
\* on every exit path of the copy command, and no stream is released when
\* Open failed: once the command has returned, the stream has been released
\* as often as it was opened, and it is never released more often.
C27_StreamReleasedOnce ==
    /\ Count("open") <= 1
    /\ Count("streamClose") <= Count("open")
    /\ cliPc \in {"returned", "deferred", "exited"} =>
          /\ Count("streamClose") = Count("open")
          /\ rc # "open"

\* C27 witness: the transfer failed after the input was opened, and the
\* command has returned.
C27_Witness ==
    /\ cliPc \in {"returned", "deferred", "exited"}
    /\ Count("open") = 1
    /\ cmdErr # <<>> /\ cmdErr[1] # NoErr
    /\ Count("streamClose") = 1

\* C27 witness on the path where no writer could be made.
C27_NoWriterWitness ==
    /\ cliPc = "exited"
    /\ Count("streamClose") = 1
    /\ cmdErr # <<>> /\ cmdErr[1].site = "NewOutputWriter"

\* The latest call was a WriteToLocal that got as far as creating its file.
CreatedFile ==
    /\ ioLast.op = "WriteToLocal"
    /\ ioLast.err.site \notin {"WriteToLocal.MkdirAll", "WriteToLocal.Create"}

\* C28: once WriteToGCS has created the write sink, the sink's Close is
\* invoked exactly once on every exit path (copy and commit succeed, the
\* commit fails, the copy fails), and not at all when no sink was created;
\* the file WriteToLocal created is closed exactly once on every exit path.
C28_SinkClosedOnce ==
    /\ (ioLast.op = "WriteToGCS" /\ ~ioCrashed) =>
          ioLast.sinkCloses = IF ioLast.session THEN 1 ELSE 0
    /\ ioLast.op = "WriteToLocal" =>
          ioLast.sinkCloses = IF CreatedFile THEN 1 ELSE 0

\* C28 witness: the sink failed during the copy of a UniversalIOWriter.
C28_Witness ==
    /\ WroteToObject
    /\ ioWriter.impl = "UniversalIOWriter"
    /\ ioLast.fault = "SinkError"
    /\ ioLast.session

\* C28 witness on the local side: the copy into the created file failed.
C28_LocalWitness ==
    /\ CreatedFile
    /\ ioLast.fault = "copy"

\* How many Close() calls had returned when call i returned, itself included.
ClosesReturnedBy(i) == Cardinality({k \in 1..i : calls[k].op = "Close"})

\* Call j was entered after call i had returned.
EnteredAfter(i, j) == calls[j].closesReturnedBefore >= ClosesReturnedBy(i)

\* C29: when the storage client's release fails during Close(), Close()
\* returns that error and the factory is Closed all the same: the client
\* reference is cleared, every Close() entered later returns nil without
\* calling the client's release, and every later request for a reader or a
\* writer fails as on a normally closed factory. Stated for the factory
\* revision whose Close clears the field.
C29_FailedReleaseStillCloses ==
    revision = "NilAfterClose" =>
        \A i \in DOMAIN calls :
            (calls[i].op = "Close" /\ calls[i].released = 1 /\ calls[i].err # NoErr) =>
                /\ calls[i].err = ReleaseError("CloseError")
                /\ FactoryState = "Closed"
                /\ \A j \in DOMAIN calls :
                      EnteredAfter(i, j) =>
                          /\ calls[j].op = "Close" =>
                                calls[j].err = NoErr /\ calls[j].released = 0
                          /\ IsGetter(calls[j]) =>
                                calls[j].err.kind = "FactoryClosed" /\ calls[j].comp = 0

\* C29 witness: a Close() whose release failed has returned, and a Close()
\* and a request for a component were made after it.
C29_Witness ==
    /\ revision = "NilAfterClose"
    /\ \E i \in DOMAIN calls, j \in DOMAIN calls, k \in DOMAIN calls :
          /\ calls[i].op = "Close" /\ calls[i].released = 1 /\ calls[i].err # NoErr
          /\ EnteredAfter(i, j) /\ calls[j].op = "Close"
          /\ EnteredAfter(i, k) /\ IsGetter(calls[k])

\* The reader's validation lets the location through to the backend: Open
\* through a reader that has a client, with a backend that has the object,
\* returns a stream.
ReaderAccepts(uri) == openGCSObject(NewLocalGCSInputReader(1), uri, "ok").err = NoErr

\* C30: the reader's own splitting of a gs:// location agrees with the
\* shared parser. Open's validation accepts the location exactly when
\* ParseGCSURI succeeds with a non-empty bucket and a non-empty key, and then
\* both derive the same (bucket, key) pair.
C30_ReaderAgreesWithParser ==
    (parsed # <<>> /\ OpenRoute(location) = "gcs") =>
        /\ ReaderAccepts(location) <=>
              /\ parsed[1].err = NoErr
              /\ parsed[1].bucketName # <<>>
              /\ parsed[1].objectPath # <<>>
        /\ ReaderAccepts(location) =>
              ObjectOf(location) = <<parsed[1].bucketName, parsed[1].objectPath>>

\* C30 witness: a location whose key contains a separator has been parsed
\* and is accepted by the reader.
C30_Witness ==
    /\ parsed # <<>>
    /\ OpenRoute(location) = "gcs"
    /\ ReaderAccepts(location)
    /\ Index(parsed[1].objectPath, Slash) # -1

\* C30 witness for a rejection: gs://b has been parsed without error and the
\* reader refuses it.
C30_RejectWitness ==
    /\ parsed # <<>>
    /\ location = GCSPrefix \o <<"b">>
    /\ parsed[1].err = NoErr
    /\ ~ReaderAccepts(location)
====
